---- MODULE Spec2Model ----
(***************************************************************************)
(* mdhtml: a markdown editor with a live HTML preview (src/main.py).       *)
(* The state is the SettingsPanel's fields and widgets, the MainWindow's   *)
(* editor, preview and font size, and the files the handlers write.  Every *)
(* action is one GUI event handler run to completion, the Qt signals it    *)
(* raises on the way (currentIndexChanged, stateChanged, settingsChanged)  *)
(* included.                                                               *)
(***************************************************************************)
EXTENDS Integers, Sequences, FiniteSets, TLC

VARIABLES
    bg_color,           \* SettingsPanel.bg_color
    text_color,         \* SettingsPanel.text_color
    font_family,        \* SettingsPanel.font_family
    center,             \* SettingsPanel.center
    bg_color_button,    \* text of SettingsPanel.bg_color_button
    text_color_button,  \* text of SettingsPanel.text_color_button
    font_items,         \* items of SettingsPanel.font_combo
    font_index,         \* currentIndex of SettingsPanel.font_combo (0-based)
    center_checkbox,    \* isChecked of SettingsPanel.center_checkbox
    md_text,            \* MainWindow.markdown_edit.toPlainText(), as lines
    editor_point_size,  \* point size of MainWindow.markdown_edit's font
    markdown_font_size, \* MainWindow.markdown_font_size
    html_view,          \* the HTML last given to MainWindow.html_view.setHtml
    html_view_from,     \* history: the (text, settings) that HTML was made of
                        \* and the editor font size at the time
    written,            \* the file last written by save_html / open_in_browser
    config_file,        \* the file last written by save_config
    md_file,            \* the file last written by save_markdown
    last                \* history: the handler that ran last and its outcome,
                        \* load_config, reset_to_default, zoom_in and zoom_out
                        \* told from the others

vars == <<bg_color, text_color, font_family, center, bg_color_button,
          text_color_button, font_items, font_index, center_checkbox,
          md_text, editor_point_size, markdown_font_size, html_view,
          html_view_from, written, config_file, md_file, last>>

----------------------------------------------------------------------------
(* Bounds of the model. *)

\* the longest document, in lines
MaxLines == 1
\* the largest editor font size zoom_in is followed to
MaxFontSize == 13

----------------------------------------------------------------------------
(* Python values.  A value carries its type, so that a str, an int and a   *)
(* bool are never equal and a Qt setter can reject the wrong one.          *)

Str(s) == [str |-> s]
Num(n) == [num |-> n]
Bool(b) == [bool |-> b]

is_str(v) == DOMAIN v = {"str"}
is_num(v) == DOMAIN v = {"num"}
is_bool(v) == DOMAIN v = {"bool"}

\* bool(v): the truth value `if v:` tests
truthy(v) ==
    IF is_bool(v) THEN v.bool
    ELSE IF is_str(v) THEN v.str # ""
    ELSE v.num # 0

\* str(v): what str.format interpolates for a replacement field
format(v) ==
    IF is_str(v) THEN v.str
    ELSE IF is_num(v) THEN ToString(v.num)
    ELSE IF v.bool THEN "True" ELSE "False"

----------------------------------------------------------------------------
(* SettingsPanel: defaults, font list, settings snapshot. *)

default_bg_color == Str("#282828")
default_text_color == Str("#ebdbb2")
default_font == Str("roboto+mono")

\* the font names init_ui puts in the combo box
fonts ==
    << "roboto+mono", "arial", "times+new+roman", "courier+new", "verdana",
       "open+sans", "lato", "montserrat", "oswald", "source+code+pro",
       "fira+code", "pt+mono", "droid+sans+mono" >>

\* Qt.Checked and Qt.Unchecked, the states stateChanged carries
Checked == 2
Unchecked == 0

\* SettingsPanel.get_settings, on the handler-local state w
get_settings(w) ==
    [ bg_color    |-> w.bg_color,
      text_color  |-> w.text_color,
      font_family |-> w.font_family,
      center      |-> w.center ]

----------------------------------------------------------------------------
(* Renderer.  An HTML text is the sequence of its pieces: the literal      *)
(* stretches of HTML_TEMPLATE and the values str.format puts between them. *)

\* the CSS update_html / save_html / open_in_browser add when center is set
CENTER_CSS == "@media (min-width: 1024px) { body { max-width: 800px; margin: 0 auto; } }"

\* the lines a document is made of
Lines == {"# Hi", "Hi"}

\* markdown.markdown(md_text, extensions=['fenced_code', 'codehilite']):
\* a "# " line is a level-1 heading, a run of other lines is one paragraph
RECURSIVE markdown_blocks(_, _)
markdown_blocks(lines, in_p) ==
    IF lines = <<>> THEN (IF in_p THEN <<"</p>">> ELSE <<>>)
    ELSE IF Head(lines) = "# Hi"
         THEN (IF in_p THEN <<"</p>">> ELSE <<>>)
              \o <<"<h1>", "Hi", "</h1>">>
              \o markdown_blocks(Tail(lines), FALSE)
         ELSE (IF in_p THEN <<"\n">> ELSE <<"<p>">>)
              \o <<Head(lines)>>
              \o markdown_blocks(Tail(lines), TRUE)

markdown(md) == markdown_blocks(md, FALSE)

\* HTML_TEMPLATE.format(content, bg_color, text_color, font_family, center_css)
HTML_TEMPLATE(content, bg, text, font, center_css) ==
    << "<!doctype html><html lang=en><head>...<link href=https://fonts.googleapis.com/css2?family=",
       format(font),
       ":wght@300;400;700&display=swap rel=stylesheet><style>html, body { margin: 0; padding: 0; font-family: '",
       format(font),
       "', monospace; background-color: ",
       format(bg),
       "; color: ",
       format(text),
       "; line-height: 1.6; } body { padding: 40px; } h1, h2, h3, h4, h5, h6 { color: ",
       format(text),
       "; margin-top: 20px; margin-bottom: 10px; text-align: center; } ... code { ... font-family: '",
       format(font),
       "', monospace; } pre { ... }",
       center_css,
       "@media (max-width: 600px) { body { padding: 20px; } }</style></head><body>" >>
    \o content
    \o << "</body></html>" >>

\* update_html_full, were centering appended whatever the checkbox says
update_html_full_always_centered(md, settings) ==
    HTML_TEMPLATE(markdown(md), settings.bg_color, settings.text_color,
                  settings.font_family, CENTER_CSS)

\* update_html_full, were the editor's font size to leak into the page
update_html_full_zoomed(md, settings) ==
    HTML_TEMPLATE(markdown(md) \o <<ToString(markdown_font_size)>>,
                  settings.bg_color, settings.text_color, settings.font_family,
                  IF truthy(settings.center) THEN CENTER_CSS ELSE "")

\* the HTML MainWindow.update_html builds
update_html_full(md, settings) ==
    LET html_content == markdown(md)
        center_css == IF truthy(settings.center) THEN CENTER_CSS ELSE ""
    IN  HTML_TEMPLATE(html_content, settings.bg_color, settings.text_color,
                      settings.font_family, center_css)

\* the HTML MainWindow.save_html builds
save_html_full(md, settings) ==
    LET html_content == markdown(md)
        center_css == IF truthy(settings.center) THEN CENTER_CSS ELSE ""
    IN  HTML_TEMPLATE(html_content, settings.bg_color, settings.text_color,
                      settings.font_family, center_css)

\* the HTML MainWindow.open_in_browser builds
open_in_browser_full(md, settings) ==
    LET html_content == markdown(md)
        center_css == IF truthy(settings.center) THEN CENTER_CSS ELSE ""
    IN  HTML_TEMPLATE(html_content, settings.bg_color, settings.text_color,
                      settings.font_family, center_css)

\* MainWindow.update_html: render the editor's text under the panel's
\* settings and give it to the preview
update_html(w) ==
    [w EXCEPT !.html_view = update_html_full(w.md_text, get_settings(w)),
              !.html_view_from = [input |-> <<w.md_text, get_settings(w)>>,
                                  font_size |-> w.markdown_font_size]]

----------------------------------------------------------------------------
(* Qt widgets, on the handler-local state w.  A setter whose argument has  *)
(* the wrong Python type raises TypeError: w.raised is set and the rest of *)
(* the handler is skipped up to the enclosing except clause.               *)

raise(w) == [w EXCEPT !.raised = TRUE]

\* QComboBox.findText: the 0-based index of the item equal to text, or -1
findText(items, text) ==
    IF \E i \in 1..Len(items) : items[i] = text
    THEN (CHOOSE i \in 1..Len(items) :
             items[i] = text /\ \A j \in 1..(i - 1) : items[j] # text) - 1
    ELSE -1

\* QComboBox.currentText
currentText(w) == w.font_items[w.font_index + 1]

\* SettingsPanel.on_font_changed, the slot of font_combo.currentIndexChanged
on_font_changed(w) ==
    update_html([w EXCEPT !.font_family = Str(currentText(w))])

\* SettingsPanel.on_center_changed, the slot of center_checkbox.stateChanged
on_center_changed(w, state) ==
    update_html([w EXCEPT !.center = Bool(state = Checked)])

\* QComboBox.setCurrentText of a combo that is not editable: select the item
\* equal to text if there is one; currentIndexChanged fires if the index moved
setCurrentText(w, text) ==
    LET i == findText(w.font_items, text)
    IN  IF i > -1 /\ i # w.font_index
        THEN on_font_changed([w EXCEPT !.font_index = i])
        ELSE w

\* QCheckBox.setChecked: stateChanged fires if the state changed
setChecked(w, b) ==
    IF b # w.center_checkbox
    THEN on_center_changed([w EXCEPT !.center_checkbox = b],
                           IF b THEN Checked ELSE Unchecked)
    ELSE w

----------------------------------------------------------------------------
(* SettingsPanel handlers, on the handler-local state w. *)

\* SettingsPanel.select_bg_color with the colour the dialog returned
select_bg_color(w, color) ==
    update_html([w EXCEPT !.bg_color = Str(color),
                          !.bg_color_button = color])

\* SettingsPanel.select_text_color with the colour the dialog returned
select_text_color(w, color) ==
    update_html([w EXCEPT !.text_color = Str(color),
                          !.text_color_button = color])

\* reset_to_default, were the centering flag left as it is
reset_to_default_keeps_center(w) ==
    LET w1 == [w EXCEPT !.bg_color = default_bg_color,
                        !.text_color = default_text_color,
                        !.font_family = default_font]
        w2 == [w1 EXCEPT !.bg_color_button = w1.bg_color.str,
                         !.text_color_button = w1.text_color.str]
    IN  update_html(setCurrentText(w2, w2.font_family.str))

\* SettingsPanel.reset_to_default
reset_to_default(w) ==
    LET w1 == [w EXCEPT !.bg_color = default_bg_color,
                        !.text_color = default_text_color,
                        !.font_family = default_font,
                        !.center = Bool(TRUE)]
        w2 == [w1 EXCEPT !.bg_color_button = w1.bg_color.str,
                         !.text_color_button = w1.text_color.str]
        w3 == setCurrentText(w2, w2.font_family.str)
        w4 == setChecked(w3, TRUE)
    IN  update_html(w4)

\* apply_config, lines 223-225
apply_bg_color(w, config) ==
    IF "bg_color" \in DOMAIN config.dict
    THEN LET w1 == [w EXCEPT !.bg_color = config.dict["bg_color"]]
         IN  IF is_str(w1.bg_color)
             THEN [w1 EXCEPT !.bg_color_button = w1.bg_color.str]
             ELSE raise(w1)
    ELSE w

\* apply_config, lines 226-228
apply_text_color(w, config) ==
    IF "text_color" \in DOMAIN config.dict
    THEN LET w1 == [w EXCEPT !.text_color = config.dict["text_color"]]
         IN  IF is_str(w1.text_color)
             THEN [w1 EXCEPT !.text_color_button = w1.text_color.str]
             ELSE raise(w1)
    ELSE w

\* apply_font_family, were a font that is not in the combo box refused
apply_font_family_listed_only(w, config) ==
    IF "font_family" \in DOMAIN config.dict
    THEN IF ~is_str(config.dict["font_family"])
         THEN raise([w EXCEPT !.font_family = config.dict["font_family"]])
         ELSE IF findText(w.font_items, config.dict["font_family"].str) = -1
              THEN w
              ELSE setCurrentText(
                       [w EXCEPT !.font_family = config.dict["font_family"]],
                       config.dict["font_family"].str)
    ELSE w

\* apply_config, lines 229-234
apply_font_family(w, config) ==
    IF "font_family" \in DOMAIN config.dict
    THEN LET w1 == [w EXCEPT !.font_family = config.dict["font_family"]]
         IN  IF is_str(w1.font_family)
             THEN LET w2 == IF findText(w1.font_items, w1.font_family.str) = -1
                            THEN [w1 EXCEPT !.font_items =
                                      Append(w1.font_items, w1.font_family.str)]
                            ELSE w1
                  IN  setCurrentText(w2, w2.font_family.str)
             ELSE raise(w1)
    ELSE w

\* apply_center, were a config without the key to mean the default
apply_center_or_default(w, config) ==
    LET w1 == [w EXCEPT !.center = IF "center" \in DOMAIN config.dict
                                   THEN config.dict["center"]
                                   ELSE Bool(TRUE)]
    IN  IF is_bool(w1.center)
        THEN setChecked(w1, w1.center.bool)
        ELSE raise(w1)

\* apply_config, lines 235-237
apply_center(w, config) ==
    IF "center" \in DOMAIN config.dict
    THEN LET w1 == [w EXCEPT !.center = config.dict["center"]]
         IN  IF is_bool(w1.center)
             THEN setChecked(w1, w1.center.bool)
             ELSE raise(w1)
    ELSE w

is_dict(v) == DOMAIN v = {"dict"}

\* SettingsPanel.apply_config: `key in config` raises TypeError unless config
\* is a container; an exception leaves at once, before settingsChanged.emit()
apply_config(w, config) ==
    IF ~is_dict(config) THEN raise(w)
    ELSE LET w1 == apply_bg_color(w, config)
             w2 == IF w1.raised THEN w1 ELSE apply_text_color(w1, config)
             w3 == IF w2.raised THEN w2 ELSE apply_font_family(w2, config)
             w4 == IF w3.raised THEN w3 ELSE apply_center(w3, config)
         IN  IF w4.raised THEN w4 ELSE update_html(w4)

----------------------------------------------------------------------------
(* Files.  A JSON text is the value it denotes, in JSON's own types; reading *)
(* and writing convert between these and Python's.                          *)

JString(s) == [string |-> s]
JNumber(n) == [number |-> n]
JTrue == [literal |-> "true"]
JFalse == [literal |-> "false"]
JObject(f) == [object |-> f]

\* json.dump of a str, int or bool
to_json(v) ==
    IF is_str(v) THEN JString(v.str)
    ELSE IF is_num(v) THEN JNumber(v.num)
    ELSE IF v.bool THEN JTrue ELSE JFalse

\* json.load of a string, number, true or false
from_json(j) ==
    IF DOMAIN j = {"string"} THEN Str(j.string)
    ELSE IF DOMAIN j = {"number"} THEN Num(j.number)
    ELSE Bool(j.literal = "true")

\* json.dump(config, f, indent=4) of a dict
json_dump(config) == JObject([k \in DOMAIN config |-> to_json(config[k])])

\* json.load(f) of a JSON text
json_load(j) ==
    IF DOMAIN j = {"object"}
    THEN [dict |-> [k \in DOMAIN j.object |-> from_json(j.object[k])]]
    ELSE from_json(j)

\* what open(filename) finds: no file, text that is no JSON, or a JSON text
NoFile == [file |-> "missing"]
NotJson == [file |-> "malformed"]
JsonFile(j) == [file |-> "json", json |-> j]

\* MainWindow.load_config once a file was chosen, lines 472-474: open and
\* json.load raise on a missing file and on text that is no JSON
load_config(w, file) ==
    IF file.file # "json" THEN raise(w)
    ELSE apply_config(w, json_load(file.json))

----------------------------------------------------------------------------
(* Inputs. *)

\* the colours a QColorDialog is closed with
Colors == {"#000000"}

\* the documents the user types
Docs == UNION {[1..n -> Lines] : n \in 0..MaxLines}

\* the partial functions from keys to the values each may take
Members(choice) ==
    UNION {[ks -> UNION {choice[k] : k \in ks}] : ks \in SUBSET DOMAIN choice}

Objects(choice) ==
    {f \in Members(choice) : \A k \in DOMAIN f : f[k] \in choice[k]}

\* the combo indexes the user picks: "roboto+mono" and "arial"
PickFonts == {0, 1}

\* the values a config file gives the four keys: of the right type and of
\* the wrong one
ConfigChoice ==
    [ bg_color    |-> {JString("#000000")},
      text_color  |-> {JString("#000000"), JNumber(5)},
      font_family |-> {JString("comic+sans")},
      center      |-> {JFalse} ]

\* more JSON objects: with a key the program does not know, with a font of
\* the combo box, with a font that is no string, with a centering flag that
\* is no boolean
OtherObjects ==
    { [center |-> JString("yes")],
      [bg_color |-> JString("#000000"), font_family |-> JString("comic+sans"),
       center |-> JString("yes")],
      [theme |-> JString("dark")],
      [theme |-> JString("dark"), center |-> JTrue],
      [bg_color |-> JString("#000000"), theme |-> JString("dark"),
       font_family |-> JString("arial")],
      [bg_color |-> JString("#000000"), font_family |-> JNumber(5),
       center |-> JFalse] }

\* the config files a load is tried on: JSON objects, a JSON text that is no
\* object, no file, no JSON
ConfigFiles ==
    {JsonFile(JObject(f)) : f \in Objects(ConfigChoice) \cup OtherObjects}
    \cup {JsonFile(JNumber(5)), NoFile, NotJson}

\* the few config files tried next to the saved one
FewConfigFiles ==
    { JsonFile(JObject([center |-> JFalse])),
      JsonFile(JObject([bg_color |-> JString("#000000"), text_color |-> JNumber(5)])),
      NotJson }

----------------------------------------------------------------------------
(* State. *)

\* the state a handler works on
World ==
    [ bg_color |-> bg_color, text_color |-> text_color,
      font_family |-> font_family, center |-> center,
      bg_color_button |-> bg_color_button,
      text_color_button |-> text_color_button,
      font_items |-> font_items, font_index |-> font_index,
      center_checkbox |-> center_checkbox,
      md_text |-> md_text, html_view |-> html_view,
      html_view_from |-> html_view_from,
      markdown_font_size |-> markdown_font_size,
      raised |-> FALSE ]

\* the handler's state becomes the program's
Commit(w) ==
    /\ bg_color' = w.bg_color
    /\ text_color' = w.text_color
    /\ font_family' = w.font_family
    /\ center' = w.center
    /\ bg_color_button' = w.bg_color_button
    /\ text_color_button' = w.text_color_button
    /\ font_items' = w.font_items
    /\ font_index' = w.font_index
    /\ center_checkbox' = w.center_checkbox
    /\ md_text' = w.md_text
    /\ html_view' = w.html_view
    /\ html_view_from' = w.html_view_from

Did(op, outcome) == last' = [op |-> op, outcome |-> outcome]

files == <<written, config_file, md_file>>
zoom == <<editor_point_size, markdown_font_size>>

\* SettingsPanel.__init__, init_ui and MainWindow.__init__
Init ==
    LET w0 == [ bg_color |-> default_bg_color,
                text_color |-> default_text_color,
                font_family |-> default_font,
                center |-> Bool(TRUE),
                bg_color_button |-> default_bg_color.str,
                text_color_button |-> default_text_color.str,
                font_items |-> fonts,
                font_index |-> findText(fonts, default_font.str),
                center_checkbox |-> TRUE,
                md_text |-> <<>>,
                html_view |-> <<>>,
                html_view_from |-> <<>>,
                markdown_font_size |-> 12,
                raised |-> FALSE ]
        w == update_html(w0)
    IN  /\ markdown_font_size = 12
        /\ editor_point_size = 12
        /\ bg_color = w.bg_color
        /\ text_color = w.text_color
        /\ font_family = w.font_family
        /\ center = w.center
        /\ bg_color_button = w.bg_color_button
        /\ text_color_button = w.text_color_button
        /\ font_items = w.font_items
        /\ font_index = w.font_index
        /\ center_checkbox = w.center_checkbox
        /\ md_text = w.md_text
        /\ html_view = w.html_view
        /\ html_view_from = w.html_view_from
        /\ written = [by |-> "nothing"]
        /\ config_file = NoFile
        /\ md_file = [by |-> "nothing"]
        /\ last = [op |-> "init", outcome |-> "ok"]

----------------------------------------------------------------------------
(* Actions: one per event handler. *)

\* the user edits the text: markdown_edit.textChanged -> update_html
EditText ==
    \E d \in Docs :
        /\ d # md_text
        /\ Commit(update_html([World EXCEPT !.md_text = d]))
        /\ Did("other", "ok")
        /\ UNCHANGED <<files, zoom>>

\* bg_color_button.clicked -> select_bg_color
SelectBgColor ==
    /\ \/ \E c \in Colors : Commit(select_bg_color(World, c)) /\ Did("other", "ok")
       \/ Commit(World) /\ Did("other", "ok")
    /\ UNCHANGED <<files, zoom>>

\* text_color_button.clicked -> select_text_color
SelectTextColor ==
    /\ \/ \E c \in Colors : Commit(select_text_color(World, c)) /\ Did("other", "ok")
       \/ Commit(World) /\ Did("other", "ok")
    /\ UNCHANGED <<files, zoom>>

\* the user picks another font: font_combo.currentIndexChanged -> on_font_changed
FontChanged ==
    \E i \in PickFonts :
        /\ i # font_index
        /\ Commit(on_font_changed([World EXCEPT !.font_index = i]))
        /\ Did("other", "ok")
        /\ UNCHANGED <<files, zoom>>

\* the user clicks the checkbox: center_checkbox.stateChanged -> on_center_changed
CenterChanged ==
    /\ Commit(setChecked(World, ~center_checkbox))
    /\ Did("other", "ok")
    /\ UNCHANGED <<files, zoom>>

\* reset_button.clicked -> reset_to_default
ResetToDefault ==
    /\ Commit(reset_to_default(World))
    /\ Did("reset", "ok")
    /\ UNCHANGED <<files, zoom>>

\* load_config_button.clicked -> loadConfig -> MainWindow.load_config
LoadConfig(candidates) ==
    /\ \/ \E file \in candidates :
            LET w == load_config(World, file)
            IN  /\ Commit([w EXCEPT !.raised = FALSE])
                /\ Did("load_config", IF w.raised THEN "raised" ELSE "ok")
       \/ Commit(World) /\ Did("load_config", "cancelled")
    /\ UNCHANGED <<files, zoom>>

\* save_config_button.clicked -> saveConfig -> MainWindow.save_config
SaveConfig ==
    /\ \/ config_file' = JsonFile(json_dump(get_settings(World))) /\ Did("other", "ok")
       \/ config_file' = config_file /\ Did("other", "ok")
    /\ Commit(World)
    /\ UNCHANGED <<written, md_file, zoom>>

\* save_markdown_button.clicked -> saveMarkdown -> MainWindow.save_markdown
SaveMarkdown ==
    /\ \/ md_file' = [by |-> "save_markdown", text |-> md_text] /\ Did("other", "ok")
       \/ md_file' = md_file /\ Did("other", "ok")
    /\ Commit(World)
    /\ UNCHANGED <<written, config_file, zoom>>

\* save_html_button.clicked -> saveHtml -> MainWindow.save_html
SaveHtml ==
    /\ \/ /\ written' = [by |-> "save_html",
                         html |-> save_html_full(md_text, get_settings(World)),
                         from |-> [input |-> <<md_text, get_settings(World)>>,
                                   font_size |-> markdown_font_size]]
          /\ Did("other", "ok")
       \/ written' = written /\ Did("other", "ok")
    /\ Commit(World)
    /\ UNCHANGED <<config_file, md_file, zoom>>

\* open_browser_button.clicked -> MainWindow.open_in_browser
OpenInBrowser ==
    /\ written' = [by |-> "open_in_browser",
                   html |-> open_in_browser_full(md_text, get_settings(World)),
                   from |-> [input |-> <<md_text, get_settings(World)>>,
                             font_size |-> markdown_font_size]]
    /\ Did("other", "ok")
    /\ Commit(World)
    /\ UNCHANGED <<config_file, md_file, zoom>>

\* MainWindow.update_markdown_font
update_markdown_font(size) == editor_point_size' = size

\* zoom_in_button.clicked -> MainWindow.zoom_in
ZoomIn ==
    /\ markdown_font_size < MaxFontSize
    /\ markdown_font_size' = markdown_font_size + 1
    /\ update_markdown_font(markdown_font_size')
    /\ Did("zoom_in", "ok")
    /\ Commit(World)
    /\ UNCHANGED files

\* zoom_out, were the size decreased without the test that it is above 1
ZoomOut_unguarded ==
    /\ markdown_font_size' = markdown_font_size - 1
    /\ update_markdown_font(markdown_font_size')
    /\ Did("zoom_out", "ok")
    /\ Commit(World)
    /\ UNCHANGED files

\* zoom_out_button.clicked -> MainWindow.zoom_out
ZoomOut ==
    /\ IF markdown_font_size > 1
       THEN /\ markdown_font_size' = markdown_font_size - 1
            /\ update_markdown_font(markdown_font_size')
       ELSE UNCHANGED zoom
    /\ Did("zoom_out", IF markdown_font_size > 1 THEN "ok" ELSE "unchanged")
    /\ Commit(World)
    /\ UNCHANGED files

----------------------------------------------------------------------------
(* Specifications. *)

\* the settings and text events
Next ==
    \/ EditText
    \/ SelectBgColor
    \/ SelectTextColor
    \/ FontChanged
    \/ CenterChanged
    \/ ResetToDefault
    \/ LoadConfig(ConfigFiles)

Spec == Init /\ [][Next]_vars

\* saving the settings and loading them back
NextConfig ==
    \/ SelectBgColor
    \/ FontChanged
    \/ CenterChanged
    \/ ResetToDefault
    \/ SaveConfig
    \/ LoadConfig(FewConfigFiles \cup {config_file})

SpecConfig == Init /\ [][NextConfig]_vars

\* the preview and the HTML files
NextRender ==
    \/ EditText
    \/ CenterChanged
    \/ ResetToDefault
    \/ LoadConfig(FewConfigFiles)
    \/ SaveHtml
    \/ OpenInBrowser
    \/ ZoomIn

SpecRender == Init /\ [][NextRender]_vars

\* the editor: its text and its font size
NextZoom ==
    \/ EditText
    \/ CenterChanged
    \/ SaveMarkdown
    \/ ZoomIn
    \/ ZoomOut

SpecZoom == Init /\ [][NextZoom]_vars

----------------------------------------------------------------------------
(* Properties. *)

settings == get_settings(World)

SettingsKeys == {"bg_color", "text_color", "font_family", "center"}

\* the JSON objects among the config files
ConfigObjects == Objects(ConfigChoice) \cup OtherObjects

\* the HTML text holds the piece
Contains(html, piece) == \E i \in 1..Len(html) : html[i] = piece

\* C1: once a handler has returned, the preview holds the HTML of the
\* current text under the current settings
C1_PreviewIsCurrent ==
    html_view = update_html_full(md_text, settings)

\* C2: a config load that fails leaves each of the four settings as it was
C2_FailedLoadIsNoOp ==
    [][ (last'.op = "load_config" /\ last'.outcome = "raised")
            => settings' = settings ]_vars

\* C3: a config load that completes overwrites the settings whose key the
\* config has, keeps the settings whose key it lacks, and is not affected by
\* any other key
C3_LoadMerges ==
    \A f \in ConfigObjects :
        LET r == load_config(World, JsonFile(JObject(f)))
            known == [k \in DOMAIN f \cap SettingsKeys |-> f[k]]
            r_known == load_config(World, JsonFile(JObject(known)))
        IN  ~r.raised =>
                /\ \A k \in SettingsKeys :
                       get_settings(r)[k] =
                           IF k \in DOMAIN f THEN from_json(f[k]) ELSE settings[k]
                /\ get_settings(r_known) = get_settings(r)

\* a load has completed that kept a centering value no config can set
C3_Witness ==
    /\ last = [op |-> "load_config", outcome |-> "ok"]
    /\ font_family = Str("comic+sans")
    /\ center = Str("yes")
    /\ bg_color = default_bg_color

\* C4: the saved config, loaded from any later state, gives settings whose
\* saved form is the saved config again
C4_SaveLoadRoundTrip ==
    config_file.file = "json" =>
        json_dump(get_settings(load_config(World, config_file))) = config_file.json

\* C5 as stated: after reset the font family is "roboto mono"
C5_ResetGivesSpacedFont ==
    last.op = "reset" =>
        settings = [ bg_color |-> Str("#282828"), text_color |-> Str("#ebdbb2"),
                     font_family |-> Str("roboto mono"), center |-> Bool(TRUE) ]

\* C5: after reset the settings are "#282828", "#ebdbb2", "roboto+mono" and
\* centered, and a second reset changes nothing
C5_ResetGivesDefaults ==
    last.op = "reset" =>
        /\ settings = [ bg_color |-> Str("#282828"), text_color |-> Str("#ebdbb2"),
                        font_family |-> Str("roboto+mono"), center |-> Bool(TRUE) ]
        /\ reset_to_default(World) = World

\* reset has undone a loaded font and the text is not empty
C5_Witness ==
    /\ last.op = "reset"
    /\ font_items # fonts
    /\ md_text # <<>>

\* C6: the HTML file written from the current text and settings is the HTML
\* the preview holds
C6_FileIsPreview ==
    (written.by # "nothing" /\ written.from.input = <<md_text, settings>>)
        => written.html = html_view

\* C7: the HTML of the current text and settings, as each of the three
\* handlers builds it and as the preview holds it, has the centering block
\* if center is true and has none if center is false
C7_CenteringBlock ==
    \A html \in { update_html_full(md_text, settings),
                  save_html_full(md_text, settings),
                  open_in_browser_full(md_text, settings),
                  html_view } :
        /\ center = Bool(TRUE) => Contains(html, CENTER_CSS)
        /\ center = Bool(FALSE) => ~Contains(html, CENTER_CSS)

\* a text is previewed without the centering block
C7_Witness ==
    /\ center = Bool(FALSE)
    /\ md_text # <<>>
    /\ ~Contains(html_view, CENTER_CSS)
    /\ html_view_from.input = <<md_text, settings>>

\* C8: a config whose font_family is a string the combo box does not list,
\* and whose colours are strings, leaves that string as the font family, and
\* the next rendering interpolates it
C8_UnlistedFontAccepted ==
    \A f \in ConfigObjects :
        LET r == load_config(World, JsonFile(JObject(f)))
        IN  ( /\ "font_family" \in DOMAIN f
              /\ DOMAIN f["font_family"] = {"string"}
              /\ findText(fonts, f["font_family"].string) = -1
              /\ \A k \in DOMAIN f \cap {"bg_color", "text_color"} :
                     DOMAIN f[k] = {"string"} )
            => /\ r.font_family = Str(f["font_family"].string)
               /\ LET html == update_html(r).html_view
                  IN  /\ html[2] = f["font_family"].string
                      /\ html[4] = f["font_family"].string
                      /\ html[12] = f["font_family"].string
               /\ ~r.raised => r.html_view[2] = f["font_family"].string

\* a load has completed and the preview uses its unlisted font
C8_Witness ==
    /\ last = [op |-> "load_config", outcome |-> "ok"]
    /\ font_family = Str("comic+sans")
    /\ findText(fonts, font_family.str) = -1
    /\ html_view[2] = "comic+sans"

\* C9: two renderings of the same text under the same settings, the
\* preview's and the written file's, are the same HTML, whatever the editor
\* font size was at either
C9_RenderDependsOnInputsOnly ==
    (written.by # "nothing" /\ written.from.input = html_view_from.input)
        => written.html = html_view

\* the preview and the file were rendered from the same text and settings at
\* different editor font sizes, after a load and an edit
C9_Witness ==
    /\ written.by # "nothing"
    /\ written.from.input = html_view_from.input
    /\ written.from.font_size # html_view_from.font_size
    /\ md_text # <<>>
    /\ bg_color # default_bg_color

\* C10: the widgets show the stored settings
C10_WidgetsMirrorSettings ==
    /\ Str(bg_color_button) = bg_color
    /\ Str(text_color_button) = text_color
    /\ Str(currentText(World)) = font_family
    /\ Bool(center_checkbox) = center

\* C11: the editor font size starts at 12 and never falls below 1; zoom_in
\* adds exactly 1 to it, zoom_out takes exactly 1 from it when it is above 1
\* and leaves it and the editor's font as they are when it is 1; the editor's
\* font follows the size; neither changes the text, the settings or the
\* preview
C11_ZoomSteps ==
    /\ markdown_font_size = 12
    /\ editor_point_size = 12
    /\ [](markdown_font_size >= 1)
    /\ [][ /\ last'.op = "zoom_in" =>
                /\ markdown_font_size' = markdown_font_size + 1
                /\ editor_point_size' = markdown_font_size'
           /\ last'.op = "zoom_out" =>
                IF markdown_font_size > 1
                THEN /\ markdown_font_size' = markdown_font_size - 1
                     /\ editor_point_size' = markdown_font_size'
                ELSE /\ markdown_font_size' = markdown_font_size
                     /\ editor_point_size' = editor_point_size
           /\ last'.op \in {"zoom_in", "zoom_out"} =>
                /\ md_text' = md_text
                /\ settings' = settings
                /\ html_view' = html_view ]_vars

\* zoom_out was clicked at size 1, with a text in the editor, and left the
\* size and the editor's font at 1
C11_Witness ==
    /\ last = [op |-> "zoom_out", outcome |-> "unchanged"]
    /\ markdown_font_size = 1
    /\ editor_point_size = 1
    /\ md_text # <<>>
    /\ center = Bool(FALSE)

====
